---- MODULE Spec2Model ----
(***************************************************************************)
(* Model of tools/dependency_summary.py: the dependency and license        *)
(* summary tool.                                                           *)
(*                                                                         *)
(* Strings that the code takes apart (license expressions, file names,     *)
(* paths, license texts) are sequences of symbols; a symbol stands for the *)
(* run of characters it spells.  Strings that the code only compares for   *)
(* equality are TLA+ strings.                                              *)
(***************************************************************************)
EXTENDS Integers, Sequences, FiniteSets, TLC

VARIABLES
    pc,             \* position of the modelled call: "ready", "done"
    id,             \* pick_most_acceptable_license: the package id argument
    alts,           \* the alternatives the expression was written from
    seps,           \* the separators written between them
    licenseId,      \* pick_most_acceptable_license: the licenseId argument
    chosenLicense,  \* what the call returned or raised
    pkgInfo,        \* _fetch_license_text: the package record
    license,        \* _fetch_license_text: the chosen license kind
    fs,             \* the package directory: its entries and which are directories
    remoteOk,       \* whether an HTTP GET of the license file gets a 2xx status
    fetched,        \* what _fetch_license_text returned or raised, and what it consulted
    deps,           \* the license records of the dependencies, one per package id
    jsonMode,       \* args.json
    output,         \* what the first run wrote (the reference file of --check)
    changed,        \* the package id whose license text changed since, 0 if none
    depsNow,        \* the license records at the second run
    output2,        \* what the second run wrote
    checkResult,    \* how the run with --check ended
    metadata,       \* the document `cargo metadata` gave
    loaded,         \* WorkspaceMetadata(metadata): the object, or the exception
    depId,          \* is_external_dependency: the package id asked about
    external,       \* is_external_dependency: "True", "False", or "not called"
    argName,        \* get_dependency_summary: the name argument
    argTargets,     \* get_dependency_summary: the targets argument
    cargo,          \* what `cargo build --build-plan` answers, and for which targets it fails
    disk,           \* the directory of every package
    network,        \* whether an HTTP GET of a license file gets a 2xx status
    todo,           \* the workspace members get_package_dependencies is still to be called for
    rootName,       \* get_package_dependencies: name
    rootTargets,    \* get_package_dependencies: targets, after get_compatible_targets_for_package
    planIdx,        \* get_package_dependencies: position of the loop over targets
    packageDeps,    \* get_package_dependencies: deps
    queries,        \* the build-plan commands run so far: package and target
    extraCalls,     \* the calls of get_extra_dependencies_not_managed_by_cargo so far
    summaryDeps,    \* get_dependency_summary: deps
    remaining,      \* get_dependency_summary: the ids the final loop has yet to visit
    yielded,        \* the license records the generator has produced
    summary,        \* how the generator ended
    report          \* __main__: the records the report was written from, if it was written

licVars == <<id, alts, seps, licenseId, chosenLicense>>
fetchVars == <<pkgInfo, license, fs, remoteOk, fetched>>

renderVars == <<deps, jsonMode, output, changed, depsNow, output2, checkResult>>

loadVars == <<metadata, loaded>>
extVars == <<depId, external>>
sumVars == <<argName, argTargets, cargo, disk, network, todo, rootName, rootTargets, planIdx,
             packageDeps, queries, extraCalls, summaryDeps, remaining, yielded, summary, report>>

vars == <<pc, licVars, fetchVars, renderVars, loadVars, extVars, sumVars>>

(***************************************************************************)
(* Generic helpers                                                         *)
(***************************************************************************)
Range(s) == {s[i] : i \in 1..Len(s)}

SeqsUpTo(S, n) == UNION {[1..k -> S] : k \in 0..n}

Injective(s) == \A i, j \in 1..Len(s) : s[i] = s[j] => i = j

Permutations_(s) ==
    {[i \in 1..Len(s) |-> s[p[i]]] : p \in {q \in [1..Len(s) -> 1..Len(s)] : Injective(q)}}

RECURSIVE Concat(_)
Concat(ss) == IF ss = <<>> THEN <<>> ELSE Head(ss) \o Concat(Tail(ss))

\* what a call gives back: a value, or the exception it raised
Returned(v) == [ok |-> TRUE, value |-> v]
Raised(e) == [ok |-> FALSE, value |-> e]
NotCalled == [ok |-> FALSE, value |-> "not called"]

\* an optional string: None, or the symbols of a string
Str(s) == [none |-> FALSE, s |-> s]
NoneStr == [none |-> TRUE, s |-> <<>>]

(***************************************************************************)
(* Python string primitives on symbol sequences                            *)
(***************************************************************************)
\* str.isspace / regex \s on one symbol
IsSpace(c) == c \in {" ", "\t", "\n"}

\* first index >= i of s that holds no whitespace (Len(s)+1 if none)
RECURSIVE SkipSpace(_, _)
SkipSpace(s, i) ==
    IF i <= Len(s) /\ IsSpace(s[i]) THEN SkipSpace(s, i + 1) ELSE i

\* str.strip()
RECURSIVE StripRight(_)
StripRight(s) ==
    IF s # <<>> /\ IsSpace(s[Len(s)]) THEN StripRight(SubSeq(s, 1, Len(s) - 1)) ELSE s

Strip(s) == StripRight(SubSeq(s, SkipSpace(s, 1), Len(s)))

(***************************************************************************)
(* pick_most_acceptable_license                                            *)
(***************************************************************************)
LICENES_IN_PREFERENCE_ORDER ==
    <<"MPL-2.0", "Apache-2.0", "MIT", "CC0-1.0", "ISC", "BSD-2-Clause", "BSD-3-Clause">>

\* The regular expression \s*(?:/|\sOR\s)\s* tried at index i of s: the index
\* just after the match, or 0 when there is no match at i.  The leading \s*
\* is greedy: with the whole whitespace run taken only "/" can follow; giving
\* one whitespace back lets \sOR\s match; giving more back leaves a
\* whitespace where "O" is needed.
SepMatchEnd(s, i) ==
    LET j == SkipSpace(s, i) IN
    IF j <= Len(s) /\ s[j] = "/" THEN SkipSpace(s, j + 1)
    ELSE IF j > i /\ j + 1 <= Len(s) /\ s[j] = "OR" /\ IsSpace(s[j + 1])
         THEN SkipSpace(s, j + 1)
    ELSE 0

\* re.split(r"\s*(?:/|\sOR\s)\s*", s): leftmost matches, scanned from `from`;
\* `i` is the index the next match is tried at.
RECURSIVE ReSplitFrom(_, _, _)
ReSplitFrom(s, from, i) ==
    IF i > Len(s) THEN <<SubSeq(s, from, Len(s))>>
    ELSE LET e == SepMatchEnd(s, i) IN
         IF e = 0 THEN ReSplitFrom(s, from, i + 1)
         ELSE <<SubSeq(s, from, i - 1)>> \o ReSplitFrom(s, e, e)

ReSplit(s) == ReSplitFrom(s, 1, 1)

\* licenses = set(l.strip() for l in re.split(...))
ParsedLicenses(s) == {Strip(p) : p \in Range(ReSplit(s))}

\* mutant: the loop keeps going and the last hit wins
RECURSIVE LastPreferred(_, _)
LastPreferred(licenses, i) ==
    IF i > Len(LICENES_IN_PREFERENCE_ORDER) THEN 0
    ELSE LET rest == LastPreferred(licenses, i + 1) IN
         IF rest # 0 THEN rest
         ELSE IF <<LICENES_IN_PREFERENCE_ORDER[i]>> \in licenses THEN i
         ELSE 0

\* the loop over LICENES_IN_PREFERENCE_ORDER: index of the first hit, 0 if none
RECURSIVE FirstPreferred(_, _)
FirstPreferred(licenses, i) ==
    IF i > Len(LICENES_IN_PREFERENCE_ORDER) THEN 0
    ELSE IF <<LICENES_IN_PREFERENCE_ORDER[i]>> \in licenses THEN i
    ELSE FirstPreferred(licenses, i + 1)

\* mutant: "OpenSSL" is accepted whatever the package
pick_openssl_for_any_package(pkgid, lic) ==
    IF lic.none THEN Raised("TypeError")
    ELSE LET licenses == ParsedLicenses(lic.s)
             i == FirstPreferred(licenses, 1) IN
         IF i # 0 THEN Returned(LICENES_IN_PREFERENCE_ORDER[i])
         ELSE IF <<"OpenSSL">> \in licenses THEN Returned("OpenSSL")
         ELSE Raised("RuntimeError")

\* licenseId is [none |-> BOOLEAN, s |-> symbols]; re.split raises TypeError on None
pick_most_acceptable_license(pkgid, lic) ==
    IF lic.none THEN Raised("TypeError")
    ELSE LET licenses == ParsedLicenses(lic.s)
             i == FirstPreferred(licenses, 1) IN
         IF i # 0 THEN Returned(LICENES_IN_PREFERENCE_ORDER[i])
         ELSE IF <<"OpenSSL">> \in licenses /\ pkgid = "ext-openssl" THEN Returned("OpenSSL")
         ELSE Raised("RuntimeError")

(***************************************************************************)
(* _fetch_license_text                                                     *)
(***************************************************************************)
\* str.lower() on one symbol, and on a string
LowerSymbol(c) ==
    CASE c \in {"LICENSE", "License"} -> "license"
      [] c = "LICENCE" -> "licence"
      [] c = "-APACHE" -> "-apache"
      [] c = "-MIT" -> "-mit"
      [] c = ".MD" -> ".md"
      [] c = ".TXT" -> ".txt"
      [] c = "COPYING" -> "copying"
      [] c = "README" -> "readme"
      [] OTHER -> c

Lower(s) == [i \in 1..Len(s) |-> LowerSymbol(s[i])]

COMMON_LICENSE_FILE_NAME_ROOTS(lic) ==
    CASE lic = "" -> {<<"license">>, <<"licence">>}
      [] lic = "Apache-2.0" -> {<<"license", "-apache">>, <<"licence", "-apache">>}
      [] lic = "MIT" -> {<<"license", "-mit">>, <<"licence", "-mit">>}

COMMON_LICENSE_FILE_NAME_KEYS == {"", "Apache-2.0", "MIT"}

COMMON_LICENSE_FILE_NAME_SUFFIXES == {<<>>, <<".md">>, <<".txt">>}

\* the table built by the module-level loop, for a key of the roots table
COMMON_LICENSE_FILE_NAMES(lic) ==
    {root \o suffix : root \in COMMON_LICENSE_FILE_NAME_ROOTS(lic) \cup COMMON_LICENSE_FILE_NAME_ROOTS(""),
                      suffix \in COMMON_LICENSE_FILE_NAME_SUFFIXES}

\* the text a regular file of the package directory holds
FileContent(nm) == <<"content of ">> \o nm
\* the text served at a license URL
RemoteContent(url) == <<"body of ">> \o url

\* mutant: any URL scheme of the web counts
StartsWithHttp(s) == Len(s) >= 1 /\ s[1] \in {"https://", "http://"}

\* str.startswith("https://")
StartsWithHttps(s) == Len(s) >= 1 /\ s[1] = "https://"

\* a result of _fetch_license_text: the text or the exception, and what was consulted
FetchReturned(text, seen) == [ok |-> TRUE, value |-> text, error |-> "", message |-> <<>>, candidates |-> {}, consulted |-> seen]
FetchRaised(e, seen) == [ok |-> FALSE, value |-> <<>>, error |-> e, message |-> <<>>, candidates |-> {}, consulted |-> seen]
\* mutant: the files found are left out of the error
FetchRaisedWithoutCandidates(msg, found, seen) ==
    [ok |-> FALSE, value |-> <<>>, error |-> "RuntimeError", message |-> msg, candidates |-> {}, consulted |-> seen]
FetchRaisedMessage(msg, found, seen) ==
    [ok |-> FALSE, value |-> <<>>, error |-> "RuntimeError", message |-> msg, candidates |-> found, consulted |-> seen]

\* with open(os.path.join(pkgRoot, nm)) as f: return f.read()
OpenAndRead(dir, nm, seen) ==
    IF nm \notin dir.entries THEN FetchRaised("FileNotFoundError", seen \cup {"open"})
    ELSE IF nm \in dir.subdirs THEN FetchRaised("IsADirectoryError", seen \cup {"open"})
    ELSE FetchReturned(FileContent(nm), seen \cup {"open"})

\* foundLicenseFiles = [nm for nm in os.listdir(pkgRoot) if nm.lower() in licenseFileNames]
\* (the order of os.listdir is not modelled: only the length, the single element
\* and the printed list are used)
FoundLicenseFiles(dir, lic) ==
    LET licenseFileNames ==
            IF lic \in COMMON_LICENSE_FILE_NAME_KEYS
            THEN COMMON_LICENSE_FILE_NAMES(lic) ELSE COMMON_LICENSE_FILE_NAMES("")
    IN {nm \in dir.entries : Lower(nm) \in licenseFileNames}

\* mutant: with several candidates, one of them is read
fetch_license_text_guessing(lic, info, dir, getOk) ==
    LET found == FoundLicenseFiles(dir, lic) IN
    IF info.has_license_text THEN FetchReturned(info.license_text, {})
    ELSE IF ~info.license_file.none THEN
        IF StartsWithHttps(info.license_file.s)
        THEN IF getOk THEN FetchReturned(RemoteContent(info.license_file.s), {"get"})
             ELSE FetchRaised("HTTPError", {"get"})
        ELSE OpenAndRead(dir, info.license_file.s, {})
    ELSE IF found # {}
         THEN OpenAndRead(dir, CHOOSE nm \in found : TRUE, {"listdir"})
    ELSE FetchRaisedMessage(
              <<"Could not find license file for '", info.name, "'.\n",
                "Please locate the correct license file and add it to PACKAGE_METADATA_FIXUPS.\n",
                "You may need to poke around in the source repository at ", info.repository>>,
              {}, {"listdir"})

_fetch_license_text(lic, info, dir, getOk) ==
    LET found == FoundLicenseFiles(dir, lic) IN
    IF info.has_license_text THEN FetchReturned(info.license_text, {})
    ELSE IF ~info.license_file.none THEN
        IF StartsWithHttps(info.license_file.s)
        THEN IF getOk THEN FetchReturned(RemoteContent(info.license_file.s), {"get"})
             ELSE FetchRaised("HTTPError", {"get"})
        ELSE OpenAndRead(dir, info.license_file.s, {})
    ELSE IF Cardinality(found) = 1
         THEN OpenAndRead(dir, CHOOSE nm \in found : TRUE, {"listdir"})
    ELSE IF Cardinality(found) > 1
         THEN FetchRaisedMessage(
              <<"Multiple ambiguous license files found for '", info.name, "'.\n",
                "Please select the correct license file and add it to PACKAGE_METADATA_FIXUPS.\n",
                "Potential license files: ", "<foundLicenseFiles>">>,
              found, {"listdir"})
    ELSE FetchRaisedMessage(
              <<"Could not find license file for '", info.name, "'.\n",
                "Please locate the correct license file and add it to PACKAGE_METADATA_FIXUPS.\n",
                "You may need to poke around in the source repository at ", info.repository>>,
              {}, {"listdir"})

(***************************************************************************)
(* Calls of _fetch_license_text                                            *)
(***************************************************************************)
MaxDirEntries == 3

\* names an entry of a package directory may have
FileNamePool ==
    {<<"LICENSE">>, <<"license", ".md">>, <<"LICENCE", ".TXT">>, <<"LICENSE", "-APACHE">>,
     <<"License", "-mit">>, <<"LICENSE", ".html">>, <<"COPYING">>, <<"README", ".md">>}

\* the kinds the call is made for (ISC has no file names of its own)
FetchLicenseKinds == {"Apache-2.0", "MIT", "ISC"}

Directories ==
    {[entries |-> e, subdirs |-> d] :
        e \in {x \in SUBSET FileNamePool : Cardinality(x) <= MaxDirEntries},
        d \in {x \in SUBSET FileNamePool : Cardinality(x) <= 1}}

DeclaredLicenseFiles ==
    {NoneStr, Str(<<"https://", "example.org/LICENSE">>), Str(<<"COPYING">>),
     Str(<<"http://", "example.org/LICENSE">>)}

FetchNotCalled == FetchRaised("not called", {})

FetchStart ==
    /\ pc = "ready"
    /\ license \in FetchLicenseKinds
    /\ fs \in {d \in Directories : d.subdirs \subseteq d.entries}
    /\ remoteOk \in BOOLEAN
    /\ pkgInfo \in [name : {"somepkg"}, repository : {"https://example.org/somepkg"},
                    has_license_text : BOOLEAN, license_text : {<<"embedded text">>},
                    license_file : DeclaredLicenseFiles]
    /\ fetched = FetchNotCalled

FetchIdle ==
    /\ license = "" /\ fs = [entries |-> {}, subdirs |-> {}] /\ remoteOk = FALSE
    /\ pkgInfo = [name |-> "", repository |-> "", has_license_text |-> FALSE,
                  license_text |-> <<>>, license_file |-> NoneStr]
    /\ fetched = FetchNotCalled

\* "license_text": self._fetch_license_text(id, chosenLicense, pkgInfo)
FetchLicenseText ==
    /\ pc = "ready"
    /\ pc' = "done"
    /\ fetched' = _fetch_license_text(license, pkgInfo, fs, remoteOk)
    /\ UNCHANGED <<pkgInfo, license, fs, remoteOk>>
    /\ UNCHANGED <<licVars, renderVars, loadVars, extVars, sumVars>>

\* the conventional file names for the chosen license, written out: the roots
\* of the license kind and the generic roots, each with suffix "", ".md", ".txt"
ConventionalNames(lic) ==
    LET generic == {<<"license">>, <<"licence">>}
        own == CASE lic = "Apache-2.0" -> {<<"license", "-apache">>, <<"licence", "-apache">>}
                 [] lic = "MIT" -> {<<"license", "-mit">>, <<"licence", "-mit">>}
                 [] OTHER -> {}
    IN UNION {{r, r \o <<".md">>, r \o <<".txt">>} : r \in generic \cup own}

MatchingEntries == {nm \in fs.entries : Lower(nm) \in ConventionalNames(license)}

NothingDeclared == ~pkgInfo.has_license_text /\ pkgInfo.license_file.none

ConventionSearchFailed == pc = "done" /\ fetched.error = "RuntimeError"

IsRemoteUrl(s) == Len(s) >= 1 /\ s[1] \in {"https://", "http://"}

\* the declared file is fetched: the body on a 2xx status, an error otherwise
FetchedRemotely ==
    /\ fetched.consulted = {"get"}
    /\ IF remoteOk THEN fetched.ok /\ fetched.value = RemoteContent(pkgInfo.license_file.s)
       ELSE ~fetched.ok /\ fetched.error = "HTTPError"

\* the declared file is opened in the manifest directory: its content, or the error of open
ReadLocally ==
    /\ fetched.consulted = {"open"}
    /\ IF pkgInfo.license_file.s \in fs.entries \ fs.subdirs
       THEN fetched.ok /\ fetched.value = FileContent(pkgInfo.license_file.s)
       ELSE ~fetched.ok /\ fetched.error \in {"FileNotFoundError", "IsADirectoryError"}

\* C13 (as claimed): embedded text is returned verbatim with nothing else
\* consulted; otherwise a declared license file gives its content, fetched
\* when the reference is a remote URL and read in the manifest directory
\* otherwise, with no convention search and no fall-through on failure; the
\* convention search runs only with neither embedded text nor declared file.
C13_ResolutionOrder ==
    pc = "done" =>
        /\ pkgInfo.has_license_text => fetched = FetchReturned(pkgInfo.license_text, {})
        /\ (~pkgInfo.has_license_text /\ ~pkgInfo.license_file.none) =>
              IF IsRemoteUrl(pkgInfo.license_file.s) THEN FetchedRemotely ELSE ReadLocally
        /\ "listdir" \in fetched.consulted <=> NothingDeclared

\* C13 (amended): as above, the declared file being fetched exactly when the
\* reference begins with "https://"; any other reference, an "http://" URL
\* included, is opened as a path in the manifest directory.
C13_ResolutionOrderHttps ==
    pc = "done" =>
        /\ pkgInfo.has_license_text => fetched = FetchReturned(pkgInfo.license_text, {})
        /\ (~pkgInfo.has_license_text /\ ~pkgInfo.license_file.none) =>
              IF Len(pkgInfo.license_file.s) >= 1 /\ pkgInfo.license_file.s[1] = "https://"
              THEN FetchedRemotely ELSE ReadLocally
        /\ "listdir" \in fetched.consulted <=> NothingDeclared

\* the declared URL cannot be fetched while the directory holds exactly one
\* conventional file: the call fails and the directory is not looked at
C13_Witness ==
    /\ pc = "done"
    /\ ~pkgInfo.has_license_text
    /\ pkgInfo.license_file = Str(<<"https://", "example.org/LICENSE">>)
    /\ ~remoteOk
    /\ Cardinality(MatchingEntries) = 1 /\ fs.subdirs = {}
    /\ ~fetched.ok /\ fetched.error = "HTTPError" /\ fetched.consulted = {"get"}

(***************************************************************************)
(* print_dependency_summary                                                *)
(***************************************************************************)
\* Package names in the order Python's string comparison puts them.
NAMES_IN_STRING_ORDER == <<"adler32", "libc", "ring">>

NameRank(n) == CHOOSE i \in 1..Len(NAMES_IN_STRING_ORDER) : NAMES_IN_STRING_ORDER[i] = n

\* list < list, as Python compares lists of strings
RECURSIVE NamesLess(_, _)
NamesLess(a, b) ==
    IF b = <<>> THEN FALSE
    ELSE IF a = <<>> THEN TRUE
    ELSE IF NameRank(a[1]) # NameRank(b[1]) THEN NameRank(a[1]) < NameRank(b[1])
    ELSE NamesLess(Tail(a), Tail(b))

\* sorted(xs, key=...): a stable sort; lt is the set of pairs <<x, y>> with
\* key(x) < key(y).  An element goes before the first later element whose key
\* is not smaller, so that elements with equal keys keep their input order.
RECURSIVE InsertSorted(_, _, _)
InsertSorted(x, sorted, lt) ==
    IF sorted = <<>> THEN <<x>>
    ELSE IF <<Head(sorted), x>> \notin lt THEN <<x>> \o sorted
    ELSE <<Head(sorted)>> \o InsertSorted(x, Tail(sorted), lt)

RECURSIVE StableSort(_, _)
StableSort(xs, lt) ==
    IF xs = <<>> THEN <<>>
    ELSE InsertSorted(Head(xs), StableSort(Tail(xs), lt), lt)

\* "".join(text.split()): the text with every whitespace removed
RECURSIVE RemoveWhitespace(_)
RemoveWhitespace(text) ==
    IF text = <<>> THEN <<>>
    ELSE IF IsSpace(Head(text)) THEN RemoveWhitespace(Tail(text))
    ELSE <<Head(text)>> \o RemoveWhitespace(Tail(text))

SHARED_TEXT_LICENSES == {"MPL-2.0", "Apache-2.0", "OpenSSL"}

\* mutant: the text is hashed as it is
LicenseTextHashOfRawText(info) ==
    IF info.license \in SHARED_TEXT_LICENSES THEN <<info.license>>
    ELSE <<info.license, ":">> \o info.license_text

\* licenseTextHash of one record; sha256 is modelled as collision-free, so the
\* digest is spelled by the text it was computed from
LicenseTextHash(info) ==
    IF info.license \in SHARED_TEXT_LICENSES THEN <<info.license>>
    ELSE <<info.license, ":">> \o RemoveWhitespace(info.license_text)

\* the keys of depsByLicenseTextHash, in the order a dict keeps them (first insertion)
RECURSIVE HashKeys(_)
HashKeys(ds) ==
    IF ds = <<>> THEN <<>>
    ELSE LET before == HashKeys(SubSeq(ds, 1, Len(ds) - 1))
             k == LicenseTextHash(ds[Len(ds)]) IN
         IF k \in Range(before) THEN before ELSE before \o <<k>>

\* depsByLicenseTextHash[key]: the records of that key, in input order
RECURSIVE DepsByLicenseTextHash(_, _)
DepsByLicenseTextHash(ds, key) ==
    IF ds = <<>> THEN <<>>
    ELSE IF LicenseTextHash(Head(ds)) = key
         THEN <<Head(ds)>> \o DepsByLicenseTextHash(Tail(ds), key)
    ELSE DepsByLicenseTextHash(Tail(ds), key)

\* name < name among the names of a list, and among the names of records
NameLess(names) == {<<a, b>> \in Range(names) \X Range(names) : NameRank(a) < NameRank(b)}
InfoNameLess(group) ==
    {<<a, b>> \in Range(group) \X Range(group) : NameRank(a.name) < NameRank(b.name)}

\* sorted(info["name"] for info in group)
SortedNames(group) ==
    LET names == [i \in 1..Len(group) |-> group[i].name] IN StableSort(names, NameLess(names))

\* the loop of sort_key: key.startswith(license); a key starts with the kind
\* it was built from, and no kind the tool produces begins with another
RECURSIVE PreferencePosition(_, _)
PreferencePosition(key, i) ==
    IF i > Len(LICENES_IN_PREFERENCE_ORDER) THEN Len(LICENES_IN_PREFERENCE_ORDER) + 1
    ELSE IF key[1] = LICENES_IN_PREFERENCE_ORDER[i] THEN i
    ELSE PreferencePosition(key, i + 1)

\* sort_key(a) < sort_key(b), as Python compares the tuples
SortKeyLess(ds, a, b) ==
    LET ia == PreferencePosition(a, 1)
        ib == PreferencePosition(b, 1) IN
    IF ia # ib THEN ia < ib
    ELSE NamesLess(SortedNames(DepsByLicenseTextHash(ds, a)),
                   SortedNames(DepsByLicenseTextHash(ds, b)))

\* sections = sorted(depsByLicenseTextHash.keys(), key=sort_key)
Sections(ds) ==
    LET keys == HashKeys(ds) IN
    StableSort(keys, {<<a, b>> \in Range(keys) \X Range(keys) : SortKeyLess(ds, a, b)})

\* sorted(set(...)) of names
RECURSIVE DedupeSorted(_)
DedupeSorted(names) ==
    IF Len(names) <= 1 THEN names
    ELSE IF names[1] = names[2] THEN DedupeSorted(Tail(names))
    ELSE <<names[1]>> \o DedupeSorted(Tail(names))

\* ", ".join(names)
RECURSIVE CommaJoin(_)
CommaJoin(names) ==
    IF names = <<>> THEN <<>>
    ELSE IF Len(names) = 1 THEN <<names[1]>>
    ELSE <<names[1], ",", " ">> \o CommaJoin(Tail(names))

\* how a license kind is spelled, symbol by symbol
KindSymbols(kind) ==
    CASE kind = "CC0-1.0" -> <<"CC0-1", ".", "0">>
      [] OTHER -> <<kind>>

format_license_header(key, group) ==
    CASE key = <<"MPL-2.0">> -> <<"Mozilla", " ", "Public", " ", "License", " ", "2", ".", "0">>
      [] key = <<"Apache-2.0">> -> <<"Apache", " ", "License", " ", "2", ".", "0">>
      [] key = <<"OpenSSL">> -> <<"OpenSSL", " ", "License">>
      [] OTHER -> KindSymbols(key[1]) \o <<" ", "License", ":", " ">>
                     \o CommaJoin(DedupeSorted(SortedNames(group)))

\* str.lower() on the symbols of a header
LowerHeaderSymbol(c) ==
    CASE c = "Mozilla" -> "mozilla"
      [] c = "Public" -> "public"
      [] c = "License" -> "license"
      [] c = "Apache" -> "apache"
      [] c = "OpenSSL" -> "openssl"
      [] c = "MIT" -> "mit"
      [] c = "ISC" -> "isc"
      [] c = "CC0-1" -> "cc0-1"
      [] c = "BSD-2-Clause" -> "bsd-2-clause"
      [] c = "BSD-3-Clause" -> "bsd-3-clause"
      [] OTHER -> c

\* mutant: the spaces are removed like the punctuation
header_to_anchor_without_spaces(header) ==
    SelectSeq([i \in 1..Len(header) |-> LowerHeaderSymbol(header[i])],
              LAMBDA c : c \notin {" ", ".", ",", ":"})

\* header.lower().replace(" ", "-").replace(".", "").replace(",", "").replace(":", "")
RECURSIVE header_to_anchor(_)
header_to_anchor(header) ==
    IF header = <<>> THEN <<>>
    ELSE LET c == LowerHeaderSymbol(Head(header))
             rest == header_to_anchor(Tail(header)) IN
         IF c = " " THEN <<"-">> \o rest
         ELSE IF c \in {".", ",", ":"} THEN rest
         ELSE <<c>> \o rest

\* mutant: the text of the first record is printed whatever it holds
FirstIndex(key, sortedGroup, i) == IF sortedGroup = <<>> THEN 0 ELSE 1

\* the loop that picks the text of a section out of the group sorted by name:
\* the index of the record whose text is printed, 0 if the loop runs out
RECURSIVE PrintedIndex(_, _, _)
PrintedIndex(key, sortedGroup, i) ==
    IF i > Len(sortedGroup) THEN 0
    ELSE IF key # <<"Apache-2.0">> \/ "[yyyy]" \in Range(sortedGroup[i].license_text) THEN i
    ELSE PrintedIndex(key, sortedGroup, i + 1)

\* pkgs = sorted(set("[name](repository)" ...)), as <<name, repository>> pairs;
\* every name of the model has one repository
Pkgs(sortedGroup) ==
    LET names == DedupeSorted(SortedNames(sortedGroup)) IN
    [i \in 1..Len(names) |->
        <<names[i], (CHOOSE d \in Range(sortedGroup) : d.name = names[i]).repository>>]

TocLine(header) ==
    [line |-> "toc", header |-> header, anchor |-> header_to_anchor(header), pkgs |-> <<>>, text |-> <<>>]

SectionLines(header, pkgs, text) ==
    [line |-> "section", header |-> header, anchor |-> <<>>, pkgs |-> pkgs, text |-> text]

\* mutant: the text is printed as it was hashed, without its whitespace
SectionOfNormalisedText(ds, key) ==
    LET unsorted == DepsByLicenseTextHash(ds, key)
        group == StableSort(unsorted, InfoNameLess(unsorted))
        i == PrintedIndex(key, group, 1) IN
    IF i = 0 THEN Raised("RuntimeError")
    ELSE IF "<triple-backtick>" \in Range(group[i].license_text) THEN Raised("AssertionError")
    ELSE Returned(SectionLines(format_license_header(key, group), Pkgs(group),
                               RemoveWhitespace(group[i].license_text)))

\* one section of the document, or the exception raised while printing it
Section(ds, key) ==
    LET unsorted == DepsByLicenseTextHash(ds, key)
        group == StableSort(unsorted, InfoNameLess(unsorted))
        i == PrintedIndex(key, group, 1) IN
    IF i = 0 THEN Raised("RuntimeError")
    ELSE IF "<triple-backtick>" \in Range(group[i].license_text) THEN Raised("AssertionError")
    ELSE Returned(SectionLines(format_license_header(key, group), Pkgs(group), group[i].license_text))

\* the document print_dependency_summary writes, or the first exception
print_dependency_summary(ds) ==
    LET sections == Sections(ds)
        toc == [i \in 1..Len(sections) |->
                   TocLine(format_license_header(sections[i], DepsByLicenseTextHash(ds, sections[i])))]
        body == [i \in 1..Len(sections) |-> Section(ds, sections[i])]
        bad == {i \in 1..Len(sections) : ~body[i].ok} IN
    IF bad # {} THEN Raised(body[CHOOSE i \in bad : \A j \in bad : i <= j].value)
    ELSE Returned(toc \o [i \in 1..Len(sections) |-> body[i].value])

(***************************************************************************)
(* Runs of print_dependency_summary and of the script with --check         *)
(***************************************************************************)
MaxDeps == 2

RenderNames == <<"adler32", "libc">>
RenderKinds == <<"Apache-2.0", "MIT", "OpenSSL">>
RenderTexts ==
    <<<<"A">>, <<"A", "\n">>, <<"A", "[yyyy]">>, <<"B", "[yyyy]">>, <<"<triple-backtick>", "[yyyy]">>>>

RepositoryOf(name) == IF name = "adler32" THEN "https://example.org/adler32" ELSE "https://example.org/libc"

\* the license records get_license_info can give, numbered
NumRecords == Len(RenderNames) * Len(RenderKinds) * Len(RenderTexts)

RecordNo(k) ==
    LET name == RenderNames[(k % Len(RenderNames)) + 1]
        kind == RenderKinds[((k \div Len(RenderNames)) % Len(RenderKinds)) + 1]
        text == RenderTexts[(k \div (Len(RenderNames) * Len(RenderKinds))) + 1] IN
    [name |-> name, repository |-> RepositoryOf(name), license |-> kind, license_text |-> text]

\* collections of records: the order they are listed in carries nothing, every
\* run iterates them in an order of its own
Collections ==
    {[i \in 1..Len(ks) |-> RecordNo(ks[i])] :
        ks \in {s \in SeqsUpTo(0..(NumRecords - 1), MaxDeps) :
                    \A i \in 1..(Len(s) - 1) : s[i] <= s[i + 1]}}

\* the orders a set of n package ids can be iterated in
Orders(n) == {q \in [1..n -> 1..n] : Injective(q)}

InOrder(ds, q) == [i \in 1..Len(ds) |-> ds[q[i]]]

\* json.dump([info for info in deps], output) / print_dependency_summary(deps, file=output)
MainOutput(json, ds) == IF json THEN Returned(ds) ELSE print_dependency_summary(ds)

\* if f.read() != output.getvalue(): raise RuntimeError("Dependency details have changed ...")
CheckAgainst(reference, out) ==
    IF ~out.ok THEN out
    ELSE IF reference # out THEN Raised("Dependency details have changed")
    ELSE Returned("unchanged")

RenderStart ==
    /\ pc = "ready"
    /\ deps \in Collections
    /\ depsNow = deps
    /\ changed = 0
    /\ output = NotCalled /\ output2 = NotCalled /\ checkResult = NotCalled

RenderIdle ==
    /\ deps = <<>> /\ depsNow = <<>> /\ jsonMode = FALSE /\ changed = 0
    /\ output = NotCalled /\ output2 = NotCalled /\ checkResult = NotCalled

\* print_dependency_summary(deps), the records in some order
PrintSummary ==
    /\ pc = "ready"
    /\ \E q \in Orders(Len(deps)) : output' = print_dependency_summary(InOrder(deps, q))
    /\ pc' = "printed"
    /\ UNCHANGED <<deps, jsonMode, changed, depsNow, output2, checkResult>>
    /\ UNCHANGED <<licVars, fetchVars, loadVars, extVars, sumVars>>

\* print_dependency_summary(deps) on the same records in some other order
PrintSummaryAgain ==
    /\ pc = "printed"
    /\ \E q \in Orders(Len(deps)) : output2' = print_dependency_summary(InOrder(deps, q))
    /\ pc' = "done"
    /\ UNCHANGED <<deps, jsonMode, output, changed, depsNow, checkResult>>
    /\ UNCHANGED <<licVars, fetchVars, loadVars, extVars, sumVars>>

\* a run without --check, its output kept as the reference file; the set of
\* package ids is iterated in some order
GenerateReference ==
    /\ pc = "ready"
    /\ \E q \in Orders(Len(deps)) : output' = MainOutput(jsonMode, InOrder(deps, q))
    /\ pc' = IF output'.ok THEN "generated" ELSE "aborted"
    /\ UNCHANGED <<deps, jsonMode, changed, depsNow, output2, checkResult>>
    /\ UNCHANGED <<licVars, fetchVars, loadVars, extVars, sumVars>>

\* the license text of one dependency changes
ChangeLicenseText ==
    /\ pc = "generated"
    /\ \E i \in 1..Len(deps), text \in Range(RenderTexts) :
          /\ text # deps[i].license_text
          /\ depsNow' = [deps EXCEPT ![i].license_text = text]
          /\ changed' = i
    /\ pc' = "changed"
    /\ UNCHANGED <<deps, jsonMode, output, output2, checkResult>>
    /\ UNCHANGED <<licVars, fetchVars, loadVars, extVars, sumVars>>

\* a run with --check <reference file>
RunCheck ==
    /\ pc \in {"generated", "changed"}
    /\ \E q \in Orders(Len(depsNow)) :
          /\ output2' = MainOutput(jsonMode, InOrder(depsNow, q))
          /\ checkResult' = CheckAgainst(output, output2')
    /\ pc' = "done"
    /\ UNCHANGED <<deps, jsonMode, output, changed, depsNow>>
    /\ UNCHANGED <<licVars, fetchVars, loadVars, extVars, sumVars>>

\* C4: the rendered document is the same for every order of the records.
C4_SameDocumentInAnyOrder ==
    pc = "done" => output2 = output

\* C5: --check against the unmodified output of an earlier run of the same
\* inputs succeeds, whatever order the dependency set is iterated in.
C5_CheckRoundTrip ==
    (pc = "done" /\ changed = 0) => checkResult = Returned("unchanged")

AloneInGroup(ds, i) ==
    \A j \in 1..Len(ds) : LicenseTextHash(ds[j]) = LicenseTextHash(ds[i]) => j = i

Groups == [k \in 1..Len(HashKeys(deps)) |-> DepsByLicenseTextHash(deps, HashKeys(deps)[k])]

\* the records at i and j are in one group
InSameGroup(i, j) ==
    \E k \in 1..Len(Groups) : deps[i] \in Range(Groups[k]) /\ deps[j] \in Range(Groups[k])

\* a text without its whitespace characters
WithoutWhitespace(text) == SelectSeq(text, LAMBDA c : c \notin {" ", "\t", "\n"})

\* what the grouping is to be: equal kinds, and for the kinds without a shared
\* text equal texts up to whitespace
BelongTogether(a, b) ==
    /\ a.license = b.license
    /\ \/ a.license \in {"MPL-2.0", "Apache-2.0", "OpenSSL"}
       \/ WithoutWhitespace(a.license_text) = WithoutWhitespace(b.license_text)

\* C14: every record is in exactly one group; two records of kind MPL-2.0,
\* Apache-2.0 or OpenSSL share a group exactly when their kinds are equal,
\* whatever their texts; two records of another kind share a group exactly
\* when their kinds are equal and their texts are equal once all whitespace
\* is removed.  A document that is printed has one section per group.
C14_Grouping ==
    /\ \A i \in 1..Len(deps) :
          Cardinality({k \in 1..Len(Groups) : deps[i] \in Range(Groups[k])}) = 1
    /\ Len(Concat(Groups)) = Len(deps)
    /\ \A i, j \in 1..Len(deps) : InSameGroup(i, j) <=> BelongTogether(deps[i], deps[j])
    /\ (pc = "printed" /\ output.ok) =>
          Cardinality({n \in 1..Len(output.value) : output.value[n].line = "section"})
             = Cardinality({{j \in 1..Len(deps) : BelongTogether(deps[i], deps[j])} : i \in 1..Len(deps)})

\* two MIT records whose texts differ by a newline are printed in one
\* section, two Apache-2.0 records of different texts as well
C14_Witness ==
    /\ pc = "printed" /\ output.ok
    /\ Len(deps) = 2
    /\ deps[1].license = "MIT" /\ deps[2].license = "MIT"
    /\ deps[1].name # deps[2].name
    /\ deps[1].license_text # deps[2].license_text
    /\ Cardinality({n \in 1..Len(output.value) : output.value[n].line = "section"}) = 1

\* the groups as sets of records: the records that belong together
Classes == {{deps[j] : j \in {n \in 1..Len(deps) : BelongTogether(deps[i], deps[n])}} : i \in 1..Len(deps)}

\* the members of a class no other member precedes in package-name order;
\* for Apache-2.0 among the members whose text has the placeholder
FirstByName(class) ==
    LET eligible == IF (CHOOSE m \in class : TRUE).license = "Apache-2.0"
                    THEN {m \in class : "[yyyy]" \in Range(m.license_text)}
                    ELSE class IN
    {m \in eligible : \A o \in eligible : ~(NameRank(o.name) < NameRank(m.name))}

\* the section line is the section of the class
SectionFor(sl, class) ==
    /\ sl.line = "section"
    /\ {sl.pkgs[n][1] : n \in 1..Len(sl.pkgs)} = {m.name : m \in class}
    /\ sl.header = format_license_header(LicenseTextHash(CHOOSE m \in class : TRUE),
                                         StableSort(DepsByLicenseTextHash(deps, LicenseTextHash(CHOOSE m \in class : TRUE)),
                                                    InfoNameLess(deps)))
    /\ \E m \in FirstByName(class) : sl.text = m.license_text

\* C15: the text printed for the Apache-2.0 group contains "[yyyy]" and is
\* the text of the first member in package-name order that contains it; with
\* no such member rendering fails; for every other group the printed text is
\* that of the first member in package-name order; no printed text contains
\* a triple backtick (members of one name are first together).
C15_SectionText ==
    pc = "printed" =>
        /\ output.ok =>
              /\ \A class \in Classes : \E n \in 1..Len(output.value) : SectionFor(output.value[n], class)
              /\ \A n \in 1..Len(output.value) :
                    output.value[n].line = "section" =>
                       /\ \E class \in Classes : SectionFor(output.value[n], class)
                       /\ "<triple-backtick>" \notin Range(output.value[n].text)
                       /\ output.value[n].header = <<"Apache", " ", "License", " ", "2", ".", "0">> =>
                             "[yyyy]" \in Range(output.value[n].text)
        /\ (\E class \in Classes : FirstByName(class) = {}) => ~output.ok
        /\ (\E class \in Classes :
               FirstByName(class) # {} /\ \A m \in FirstByName(class) : "<triple-backtick>" \in Range(m.license_text))
              => ~output.ok
        /\ ~output.ok => output.value \in {"RuntimeError", "AssertionError"}

\* libc's Apache-2.0 text has the placeholder and adler32's has not: libc's is printed
C15_Witness ==
    /\ pc = "printed" /\ output.ok
    /\ Len(deps) = 2
    /\ \E i, j \in 1..2 :
          /\ deps[i].name = "adler32" /\ deps[i].license = "Apache-2.0" /\ deps[i].license_text = <<"A">>
          /\ deps[j].name = "libc" /\ deps[j].license = "Apache-2.0" /\ deps[j].license_text = <<"B", "[yyyy]">>
    /\ \E n \in 1..Len(output.value) :
          output.value[n].line = "section" /\ output.value[n].text = <<"B", "[yyyy]">>

\* the header in lower case
LowerCased(header) == [i \in 1..Len(header) |-> LowerHeaderSymbol(header[i])]

\* the lines of the table of contents of a printed document
TocLines == {n \in 1..Len(output.value) : output.value[n].line = "toc"}

\* C17 (as claimed): the anchor of every section header is the header in
\* lower case with every space, period, comma and colon removed, so it holds
\* none of the four and nothing that is not in the lower-cased header.
C17_AnchorStripsFourCharacters ==
    (pc = "printed" /\ output.ok) =>
        \A n \in TocLines :
            LET header == output.value[n].header
                anchor == output.value[n].anchor IN
            /\ anchor = SelectSeq(LowerCased(header), LAMBDA c : c \notin {" ", ".", ",", ":"})
            /\ Range(anchor) \cap {" ", ".", ",", ":"} = {}
            /\ Range(anchor) \subseteq Range(LowerCased(header))

\* C17 (amended): the anchor is the header in lower case with every space
\* replaced by a hyphen and every period, comma and colon removed; it holds
\* none of the four characters, and nothing but characters of the
\* lower-cased header and the hyphens that stand for its spaces.
C17_AnchorHyphenatesSpaces ==
    (pc = "printed" /\ output.ok) =>
        \A n \in TocLines :
            LET header == output.value[n].header
                anchor == output.value[n].anchor
                kept == SelectSeq(LowerCased(header), LAMBDA c : c \notin {".", ",", ":"}) IN
            /\ anchor = [i \in 1..Len(kept) |-> IF kept[i] = " " THEN "-" ELSE kept[i]]
            /\ Range(anchor) \cap {" ", ".", ",", ":"} = {}
            /\ Range(anchor) \subseteq Range(LowerCased(header)) \cup {"-"}
            /\ Cardinality({i \in 1..Len(anchor) : anchor[i] = "-"})
                  = Cardinality({i \in 1..Len(header) : header[i] \in {" ", "-"}})

\* the anchor of a header that lists two packages
C17_Witness ==
    /\ pc = "printed" /\ output.ok
    /\ \E n \in TocLines :
          /\ output.value[n].header = <<"MIT", " ", "License", ":", " ", "adler32", ",", " ", "libc">>
          /\ output.value[n].anchor = <<"mit", "-", "license", "-", "adler32", "-", "libc">>

(***************************************************************************)
(* WorkspaceMetadata.__init__                                              *)
(***************************************************************************)
EXCLUDED_PACKAGES == {"cloudabi", "fuchsia-cprng", "fuchsia-zircon", "fuchsia-zircon-sys"}

\* a package record; a key cargo leaves out is modelled as None, which is
\* what info.get(key, None) makes of it, except "source" (has_source)
Info(pkgid, name, lic, licenseFile, repo, hasSource, src, manifest, targets) ==
    [id |-> pkgid, name |-> name, license |-> lic, license_file |-> licenseFile,
     repository |-> repo, has_source |-> hasSource, source |-> src,
     manifest_path |-> manifest, targets |-> targets]

ExtraInfo(name, repo, lic, licenseFile) ==
    Info("", name, Str(<<lic>>), Str(<<"https://", licenseFile>>), Str(<<repo>>),
         FALSE, NoneStr, <<>>, <<>>)

EXTRA_PACKAGE_IDS == {"ext-jna", "ext-protobuf", "ext-swift-protobuf", "ext-openssl", "ext-sqlcipher"}

EXTRA_PACKAGE_METADATA(key) ==
    CASE key = "ext-jna" ->
            ExtraInfo("jna", "https://github.com/java-native-access/jna", "Apache-2.0",
                      "raw.githubusercontent.com/java-native-access/jna/master/AL2.0")
      [] key = "ext-protobuf" ->
            ExtraInfo("protobuf", "https://github.com/protocolbuffers/protobuf", "BSD-3-Clause",
                      "raw.githubusercontent.com/protocolbuffers/protobuf/master/LICENSE")
      [] key = "ext-swift-protobuf" ->
            ExtraInfo("swift-protobuf", "https://github.com/apple/swift-protobuf", "Apache-2.0",
                      "raw.githubusercontent.com/apple/swift-protobuf/master/LICENSE.txt")
      [] key = "ext-openssl" ->
            ExtraInfo("openssl", "https://www.openssl.org/source/", "OpenSSL",
                      "www.openssl.org/source/license-openssl-ssleay.txt")
      [] key = "ext-sqlcipher" ->
            ExtraInfo("sqlcipher", "https://github.com/sqlcipher/sqlcipher", "BSD-3-Clause",
                      "raw.githubusercontent.com/sqlcipher/sqlcipher/master/LICENSE")

\* one field of a fixup: the value cargo must report, and the replacement if any
Change(key, check, hasFixup, fixup) ==
    [key |-> key, check |-> check, has_fixup |-> hasFixup, fixup |-> fixup]

\* The entries of PACKAGE_METADATA_FIXUPS for ring, adler32 and publicsuffix,
\* the fields in the order the dict lists them.  The other entries of the
\* table have the shape of publicsuffix's: one field checked only, and
\* license_file checked to be None and replaced.
PACKAGE_METADATA_FIXUP_NAMES == {"ring", "adler32", "publicsuffix"}

PACKAGE_METADATA_FIXUPS(name) ==
    CASE name = "ring" ->
            <<Change("license", NoneStr, TRUE, Str(<<"ISC">>))>>
      [] name = "adler32" ->
            <<Change("license", Str(<<"BSD-3-Clause", " ", "AND", " ", "Zlib">>), TRUE, Str(<<"BSD-3-Clause">>)),
              Change("license_file", NoneStr, TRUE, Str(<<"LICENSE">>))>>
      [] name = "publicsuffix" ->
            <<Change("license", Str(<<"MIT", "/", "Apache-2.0">>), FALSE, NoneStr),
              Change("license_file", NoneStr, TRUE, Str(<<"LICENSE", "-APACHE">>))>>

\* the result of the fixup loop on one package: the record, or the failed check
FixupsApplied(info) == [ok |-> TRUE, info |-> info, key |-> ""]
FixupCheckFailed(info, key) == [ok |-> FALSE, info |-> info, key |-> key]

\* mutant: the replacement is made without looking at the reported value
RECURSIVE ApplyFixupsUnchecked(_, _)
ApplyFixupsUnchecked(info, fixups) ==
    IF fixups = <<>> THEN FixupsApplied(info)
    ELSE LET change == Head(fixups) IN
         IF change.has_fixup
         THEN ApplyFixupsUnchecked([info EXCEPT ![change.key] = change.fixup], Tail(fixups))
         ELSE ApplyFixupsUnchecked(info, Tail(fixups))

\* for key, change in fixups.items(): check, then replace
RECURSIVE ApplyFixups(_, _)
ApplyFixups(info, fixups) ==
    IF fixups = <<>> THEN FixupsApplied(info)
    ELSE LET change == Head(fixups) IN
         IF info[change.key] # change.check THEN FixupCheckFailed(info, change.key)
         ELSE IF change.has_fixup
         THEN ApplyFixups([info EXCEPT ![change.key] = change.fixup], Tail(fixups))
         ELSE ApplyFixups(info, Tail(fixups))

\* the object under construction, and the finished or failed construction
NoWorkspace ==
    [pkgInfoById |-> <<>>, pkgInfoByManifestPath |-> <<>>, workspaceMembersByName |-> <<>>,
     workspace_root |-> <<>>]

Loaded(ws) == [ok |-> TRUE, error |-> "", name |-> "", key |-> "", ws |-> ws]
LoadFailed(e, name, key) == [ok |-> FALSE, error |-> e, name |-> name, key |-> key, ws |-> NoWorkspace]
NotLoaded == LoadFailed("not called", "", "")

\* the loop over metadata["packages"], from package i on
RECURSIVE IndexPackages(_, _, _)
IndexPackages(packages, i, ws) ==
    IF i > Len(packages) THEN Loaded(ws)
    ELSE LET info == packages[i] IN
         IF info.name \in EXCLUDED_PACKAGES THEN IndexPackages(packages, i + 1, ws)
         ELSE LET fixed == IF info.name \in PACKAGE_METADATA_FIXUP_NAMES
                           THEN ApplyFixups(info, PACKAGE_METADATA_FIXUPS(info.name))
                           ELSE FixupsApplied(info) IN
              IF ~fixed.ok THEN LoadFailed("Fixup check failed", info.name, fixed.key)
              ELSE IF info.id \in DOMAIN ws.pkgInfoById
                   THEN LoadFailed("AssertionError", info.name, "id")
              ELSE IF info.manifest_path \in DOMAIN ws.pkgInfoByManifestPath
                   THEN LoadFailed("AssertionError", info.name, "manifest_path")
              ELSE IndexPackages(packages, i + 1,
                      [ws EXCEPT !.pkgInfoById = (info.id :> fixed.info) @@ @,
                                 !.pkgInfoByManifestPath = (info.manifest_path :> fixed.info) @@ @])

\* the loop over EXTRA_PACKAGE_METADATA
AddExtraPackages(ws) ==
    IF EXTRA_PACKAGE_IDS \cap DOMAIN ws.pkgInfoById # {} THEN LoadFailed("AssertionError", "", "id")
    ELSE Loaded([ws EXCEPT !.pkgInfoById =
                    [k \in EXTRA_PACKAGE_IDS |-> EXTRA_PACKAGE_METADATA(k)] @@ @])

\* the loop over metadata["workspace_members"], from member i on
RECURSIVE IndexMembers(_, _, _)
IndexMembers(members, i, ws) ==
    IF i > Len(members) THEN Loaded(ws)
    ELSE IF members[i] \notin DOMAIN ws.pkgInfoById THEN LoadFailed("KeyError", "", members[i])
    ELSE LET name == ws.pkgInfoById[members[i]].name IN
         IF name \in DOMAIN ws.workspaceMembersByName THEN LoadFailed("AssertionError", name, "name")
         ELSE IndexMembers(members, i + 1,
                 [ws EXCEPT !.workspaceMembersByName = (name :> members[i]) @@ @])

WorkspaceMetadata(md) ==
    LET indexed == IndexPackages(md.packages, 1, [NoWorkspace EXCEPT !.workspace_root = md.workspace_root]) IN
    IF ~indexed.ok THEN indexed
    ELSE LET extended == AddExtraPackages(indexed.ws) IN
         IF ~extended.ok THEN extended
         ELSE IndexMembers(md.workspace_members, 1, extended.ws)

(***************************************************************************)
(* Loads of the workspace metadata                                         *)
(***************************************************************************)
MaxPackages == 2

LoadNames == {"ring", "adler32", "publicsuffix", "cloudabi", "libc"}

ReportedLicenses ==
    {NoneStr, Str(<<"ISC">>), Str(<<"BSD-3-Clause", " ", "AND", " ", "Zlib">>),
     Str(<<"MIT", "/", "Apache-2.0">>)}

ReportedLicenseFiles == {NoneStr, Str(<<"LICENSE">>)}

\* the i-th package of the document: cargo gives every package an id and a
\* manifest path of its own
RegistryPackage(i, name, lic, licenseFile) ==
    Info(name \o " 0." \o ToString(i), name, lic, licenseFile, Str(<<"https://example.org/", name>>),
         TRUE, Str(<<"registry+https://github.com/rust-lang/crates.io-index">>),
         <<"/", "registry", "/", name \o "-0." \o ToString(i), "/", "Cargo.toml">>, <<{"lib"}>>)

LoadStart ==
    /\ pc = "ready"
    /\ \E n \in 1..MaxPackages :
         \E names \in [1..n -> LoadNames], lics \in [1..n -> ReportedLicenses],
            files \in [1..n -> ReportedLicenseFiles] :
              metadata = [packages |-> [i \in 1..n |-> RegistryPackage(i, names[i], lics[i], files[i])],
                          workspace_members |-> <<>>,
                          workspace_root |-> <<"/", "ws">>]
    /\ loaded = NotLoaded

LoadIdle ==
    /\ metadata = [packages |-> <<>>, workspace_members |-> <<>>, workspace_root |-> <<>>]
    /\ loaded = NotLoaded

\* return WorkspaceMetadata(json.loads(p.stdout))
LoadMetadata ==
    /\ pc = "ready"
    /\ pc' = "done"
    /\ loaded' = WorkspaceMetadata(metadata)
    /\ UNCHANGED metadata
    /\ UNCHANGED <<licVars, fetchVars, renderVars, extVars, sumVars>>

\* a listed field whose reported value is not the recorded "check" value
FixupMismatch(info) ==
    /\ info.name \notin EXCLUDED_PACKAGES
    /\ info.name \in PACKAGE_METADATA_FIXUP_NAMES
    /\ \E c \in Range(PACKAGE_METADATA_FIXUPS(info.name)) : info[c.key] # c.check

\* what a field of a loaded package must hold
ExpectedField(info, key) ==
    LET listed == IF info.name \in PACKAGE_METADATA_FIXUP_NAMES
                  THEN {c \in Range(PACKAGE_METADATA_FIXUPS(info.name)) : c.key = key}
                  ELSE {} IN
    IF \E c \in listed : c.has_fixup THEN (CHOOSE c \in listed : c.has_fixup).fixup
    ELSE info[key]

\* C7: a listed field is replaced by its fixup value only when the reported
\* value equals the "check" value; any mismatch fails the load with "Fixup
\* check failed" and gives no WorkspaceMetadata; a field with a check and no
\* fixup stays as reported; ring ends up with license ISC or the load fails.
C7_FixupGuard ==
    pc = "done" =>
        /\ (\E i \in 1..Len(metadata.packages) : FixupMismatch(metadata.packages[i])) =>
              /\ ~loaded.ok /\ loaded.error = "Fixup check failed"
              /\ loaded.ws = NoWorkspace
        /\ loaded.ok =>
              \A i \in 1..Len(metadata.packages) :
                 LET info == metadata.packages[i] IN
                 info.name \notin EXCLUDED_PACKAGES =>
                    /\ info.id \in DOMAIN loaded.ws.pkgInfoById
                    /\ \A key \in {"license", "license_file", "repository"} :
                          loaded.ws.pkgInfoById[info.id][key] = ExpectedField(info, key)
                    /\ info.name = "ring" => loaded.ws.pkgInfoById[info.id].license = Str(<<"ISC">>)
        /\ ~loaded.ok => \E i \in 1..Len(metadata.packages) : FixupMismatch(metadata.packages[i])

\* ring reported with a license of its own: the load fails on the check
C7_Witness ==
    /\ pc = "done"
    /\ \E i \in 1..Len(metadata.packages) :
          /\ metadata.packages[i].name = "ring"
          /\ metadata.packages[i].license = Str(<<"MIT", "/", "Apache-2.0">>)
    /\ loaded = LoadFailed("Fixup check failed", "ring", "license")

(***************************************************************************)
(* is_external_dependency                                                  *)
(***************************************************************************)
\* os.path.commonprefix([a, b]): the longest common prefix, character by
\* character.  The symbols of a path begin with different characters, so the
\* common prefix of the characters ends where that of the symbols ends.
RECURSIVE commonprefix(_, _)
commonprefix(a, b) ==
    IF a = <<>> \/ b = <<>> \/ Head(a) # Head(b) THEN <<>>
    ELSE <<Head(a)>> \o commonprefix(Tail(a), Tail(b))

is_external_dependency(ws, pkgid) ==
    LET info == ws.pkgInfoById[pkgid] IN
    IF ~info.has_source THEN TRUE
    ELSE IF ~info.source.none THEN TRUE
    ELSE IF commonprefix(info.manifest_path, ws.workspace_root) # ws.workspace_root THEN TRUE
    ELSE FALSE

(***************************************************************************)
(* Calls of is_external_dependency                                         *)
(***************************************************************************)
MaxPathSegments == 3

\* directory names, spelled in symbols: "ws-other" begins with the characters of "ws"
PathSegments == {<<"a">>, <<"ws">>, <<"ws", "-other">>, <<"pkg">>}

\* "/" seg[1] "/" seg[2] ...
RECURSIVE PathOf(_)
PathOf(segs) == IF segs = <<>> THEN <<>> ELSE <<"/">> \o Head(segs) \o PathOf(Tail(segs))

WorkspaceRoots == {PathOf(<<<<"a">>, <<"ws">>>>), PathOf(<<<<"ws">>>>), PathOf(<<<<"a">>>>)}

PackageSources == {NoneStr, Str(<<"registry+https://github.com/rust-lang/crates.io-index">>)}

ExternalStart ==
    /\ pc = "ready"
    /\ \E segs \in SeqsUpTo(PathSegments, MaxPathSegments), root \in WorkspaceRoots,
          src \in PackageSources :
          metadata = [packages |-> <<Info("pkg 0.1", "pkg", Str(<<"MIT">>), NoneStr, NoneStr, TRUE, src,
                                          PathOf(segs) \o <<"/", "Cargo.toml">>, <<{"lib"}>>)>>,
                      workspace_members |-> <<>>,
                      workspace_root |-> root]
    /\ loaded = WorkspaceMetadata(metadata)
    /\ depId \in {"pkg 0.1", "ext-openssl"}
    /\ external = "not called"

ExternalIdle == depId = "" /\ external = "not called"

\* if not self.is_external_dependency(id): continue
IsExternalDependency ==
    /\ pc = "ready"
    /\ pc' = "done"
    /\ external' = IF is_external_dependency(loaded.ws, depId) THEN "True" ELSE "False"
    /\ UNCHANGED <<metadata, loaded, depId>>
    /\ UNCHANGED <<licVars, fetchVars, renderVars, sumVars>>

\* the manifest lies in the workspace root directory or below it
ResidesUnder(path, root) ==
    Len(path) > Len(root) /\ SubSeq(path, 1, Len(root) + 1) = root \o <<"/">>

\* C10: the result is true exactly when the record has no "source" key, or a
\* source that is not null, or a manifest path that does not reside under the
\* workspace root (a sibling directory whose name begins like the root's included).
C10_ExternalExactly ==
    pc = "done" =>
        LET info == loaded.ws.pkgInfoById[depId] IN
        (external = "True") <=>
            \/ ~info.has_source
            \/ ~info.source.none
            \/ ~ResidesUnder(info.manifest_path, loaded.ws.workspace_root)

(***************************************************************************)
(* get_dependency_summary                                                  *)
(***************************************************************************)
\* A target triple is spelled in symbols, a trailing "-ios", "-android" or
\* "-androideabi" being a symbol of its own, so that str.endswith is a test
\* of the last symbol.
ALL_ANDROID_TARGETS ==
    << <<"armv7-linux", "-androideabi">>, <<"aarch64-linux", "-android">>,
       <<"i686-linux", "-android">>, <<"x86_64-linux", "-android">> >>

ALL_IOS_TARGETS == << <<"x86_64-apple", "-ios">>, <<"aarch64-apple", "-ios">> >>

ALL_TARGETS ==
    ALL_ANDROID_TARGETS \o ALL_IOS_TARGETS \o
    << <<"x86_64-unknown-linux-gnu">>, <<"x86_64-apple-darwin">>,
       <<"x86_64-pc-windows-msvc">>, <<"x86_64-pc-windows-gnu">> >>

PACKAGES_WITH_EXTRA_DEPENDENCIES(name) ==
    CASE name \in {"openssl-sys", "ring"} -> {"ext-openssl"}
      [] name = "logins" -> {"ext-sqlcipher"}
      [] OTHER -> {}

\* str.endswith(suffix)
EndsWith(target, suffix) == target # <<>> /\ target[Len(target)] = suffix

target_is_android(target) == EndsWith(target, "-android") \/ EndsWith(target, "-androideabi")

\* mutant: "-ios" anywhere in the target
target_mentions_ios(target) == "-ios" \in Range(target)

target_is_ios(target) == EndsWith(target, "-ios")

\* the targets argument: None, one string, or a list of strings
TargetsNone == [kind |-> "none", list |-> <<>>]
TargetsStr(t) == [kind |-> "str", list |-> <<t>>]
TargetsList(l) == [kind |-> "list", list |-> l]

\* not targets
NotTargets(tg) ==
    \/ tg.kind = "none"
    \/ tg.kind = "list" /\ tg.list = <<>>
    \/ tg.kind = "str" /\ tg.list[1] = <<>>

CompatibleTargets(l) == [ok |-> TRUE, error |-> "", list |-> l]
CompatibleTargetsRaised(e) == [ok |-> FALSE, error |-> e, list |-> <<>>]

\* for buildTarget in pkgInfo["targets"]: the list is filtered once per cdylib build target
RECURSIVE WithoutIosPerCdylib(_, _, _)
WithoutIosPerCdylib(buildTargets, i, l) ==
    IF i > Len(buildTargets) THEN l
    ELSE IF "cdylib" \in buildTargets[i]
         THEN WithoutIosPerCdylib(buildTargets, i + 1, SelectSeq(l, LAMBDA t : ~target_is_ios(t)))
         ELSE WithoutIosPerCdylib(buildTargets, i + 1, l)

\* mutant: the requested targets are kept whatever the package builds
get_requested_targets_for_package(ws, nm, tg) ==
    LET l == IF NotTargets(tg) THEN ALL_TARGETS ELSE tg.list IN
    IF nm \notin DOMAIN ws.workspaceMembersByName THEN CompatibleTargetsRaised("KeyError")
    ELSE CompatibleTargets(l)

get_compatible_targets_for_package(ws, nm, tg) ==
    LET l == IF NotTargets(tg) THEN ALL_TARGETS ELSE tg.list IN
    IF nm \notin DOMAIN ws.workspaceMembersByName THEN CompatibleTargetsRaised("KeyError")
    ELSE CompatibleTargets(
            WithoutIosPerCdylib(ws.pkgInfoById[ws.workspaceMembersByName[nm]].targets, 1, l))

\* buildPlan["inputs"] of `cargo build --build-plan --package nm --target target`:
\* the manifest of the package and of the packages it depends on for that
\* target (cargo.iosOnly: the dependencies declared for iOS targets only)
BuildPlanInputs(md, cg, nm, target) ==
    {md.packages[i].manifest_path : i \in
        {j \in 1..Len(md.packages) :
            \/ md.packages[j].name = nm
            \/ /\ md.packages[j].name \in cg.inputs[nm]
               /\ md.packages[j].name \in cg.iosOnly => target_is_ios(target)}}

get_extra_dependencies_not_managed_by_cargo(ws, l, ds) ==
    (IF \E i \in 1..Len(l) : target_is_android(l[i]) THEN {"ext-jna", "ext-protobuf"} ELSE {})
    \cup (IF \E i \in 1..Len(l) : target_is_ios(l[i]) THEN {"ext-swift-protobuf"} ELSE {})
    \cup UNION {PACKAGES_WITH_EXTRA_DEPENDENCIES(ws.pkgInfoById[dep].name) : dep \in ds}

\* mutant: no fixup is ever reported as unnecessary
no_unnecessary_deps(ws, ds) == {}

\* unnecessaryDeps = [dep for dep in PACKAGE_METADATA_FIXUPS if dep not in allDepNames]
\* (as a set: the message prints them in the order of the table)
unnecessaryDeps(ws, ds) ==
    LET allDepNames == {ws.pkgInfoById[dep].name : dep \in ds} IN
    {dep \in PACKAGE_METADATA_FIXUP_NAMES : dep \notin allDepNames}

\* the symbols of a string, as one string
RECURSIVE Text(_)
Text(s) == IF s = <<>> THEN "" ELSE Head(s) \o Text(Tail(s))

\* pkgInfo as _fetch_license_text reads it; no record of the metadata and no
\* fixup modelled here has a "license_text" key
FetchInfo(info) ==
    [name |-> info.name,
     repository |-> IF info.repository.none THEN "None" ELSE Text(info.repository.s),
     has_license_text |-> FALSE, license_text |-> <<>>,
     license_file |-> info.license_file]

LicenseInfo(info, chosenKind, text) ==
    [ok |-> TRUE, error |-> "",
     info |-> [name |-> info.name, repository |-> info.repository,
               license |-> chosenKind, license_text |-> text]]
LicenseInfoRaised(e) ==
    [ok |-> FALSE, error |-> e,
     info |-> [name |-> "", repository |-> NoneStr, license |-> "", license_text |-> <<>>]]

\* mutant: a license text that cannot be resolved is reported as empty
get_license_info_without_text(ws, pkgid, dsk, getOk) ==
    LET info == ws.pkgInfoById[pkgid]
        chosen == pick_most_acceptable_license(pkgid, info.license) IN
    IF ~chosen.ok THEN LicenseInfoRaised(chosen.value)
    ELSE LicenseInfo(info, chosen.value,
                     _fetch_license_text(chosen.value, FetchInfo(info), dsk[info.name], getOk).value)

get_license_info(ws, pkgid, dsk, getOk) ==
    LET info == ws.pkgInfoById[pkgid]
        chosen == pick_most_acceptable_license(pkgid, info.license) IN
    IF ~chosen.ok THEN LicenseInfoRaised(chosen.value)
    ELSE LET text == _fetch_license_text(chosen.value, FetchInfo(info), dsk[info.name], getOk) IN
         IF ~text.ok THEN LicenseInfoRaised(text.error)
         ELSE LicenseInfo(info, chosen.value, text.value)

(***************************************************************************)
(* Runs of get_dependency_summary                                          *)
(***************************************************************************)
\* the name argument: None, or a package name
NoName == [none |-> TRUE, name |-> ""]
Name(nm) == [none |-> FALSE, name |-> nm]

\* "ring" is a package of the workspace's closure, and no workspace member
RequestedNames == {NoName, Name("logins"), Name("fxa-client"), Name("ring")}

\* "aarch64-apple-ios-sim" has "-ios" inside and not at its end; one list
\* names a target twice; one holds the iOS targets only
RequestedTargets ==
    {TargetsNone,
     TargetsStr(<<"x86_64-apple", "-ios">>),
     TargetsList(<< <<"x86_64-apple", "-ios">>, <<"x86_64-unknown-linux-gnu">> >>),
     TargetsList(<< <<"armv7-linux", "-androideabi">>, <<"armv7-linux", "-androideabi">> >>),
     TargetsList(ALL_IOS_TARGETS),
     TargetsList(<< <<"aarch64-apple", "-ios", "-sim">>, <<"x86_64-pc-windows-gnu">> >>)}

\* pkgInfo["targets"]: the kind of each build target of a workspace member
BuildTargetOptions == {<< {"lib"} >>, << {"lib"}, {"staticlib", "cdylib"} >>}

\* a workspace member: source null, manifest under the workspace root
MemberPackage(nm, buildTargets) ==
    Info(nm \o " 0.1", nm, Str(<<"MPL-2.0">>), NoneStr,
         Str(<<"https://github.com/mozilla/application-services">>),
         TRUE, NoneStr, <<"/", "ws", "/", nm, "/", "Cargo.toml">>, buildTargets)

\* the document `cargo metadata` gives for the workspace
WorkspaceDocument(loginsTargets, fxaTargets) ==
    [packages |->
        <<MemberPackage("logins", loginsTargets),
          MemberPackage("fxa-client", fxaTargets),
          RegistryPackage(3, "ring", NoneStr, NoneStr),
          RegistryPackage(4, "adler32", Str(<<"BSD-3-Clause", " ", "AND", " ", "Zlib">>), NoneStr),
          RegistryPackage(5, "publicsuffix", Str(<<"MIT", "/", "Apache-2.0">>), NoneStr),
          RegistryPackage(6, "openssl-sys", Str(<<"MIT">>), NoneStr),
          RegistryPackage(7, "libc", Str(<<"MIT", " ", "OR", " ", "Apache-2.0">>), NoneStr),
          RegistryPackage(8, "cloudabi", Str(<<"BSD-2-Clause">>), NoneStr)>>,
     workspace_members |-> <<"logins 0.1", "fxa-client 0.1">>,
     workspace_root |-> <<"/", "ws">>]

\* what cargo lists as the dependencies of each member (cloudabi is never
\* indexed, so a build plan that lists it cannot be resolved)
CargoInputs ==
    {[nm \in {"logins", "fxa-client"} |-> IF nm = "logins" THEN a ELSE b] :
        a \in {{"ring", "adler32", "publicsuffix"}, {"ring", "adler32"}, {"libc"}},
        b \in {{"publicsuffix", "libc"}, {"openssl-sys"}, {"cloudabi"}}}

CargoAnswers ==
    [inputs : CargoInputs, iosOnly : {{}, {"publicsuffix"}},
     failing : {{}, {<<"x86_64-pc-windows-gnu">>}}]

OneFile(nm) == [entries |-> {nm}, subdirs |-> {}]

\* the directory of libc: one license file per license, or a plain LICENSE beside them
LibcDirectories ==
    {OneFile(<<"LICENSE", "-APACHE">>),
     [entries |-> {<<"LICENSE", "-APACHE">>, <<"LICENSE">>}, subdirs |-> {}]}

PackageNames ==
    {"logins", "fxa-client", "ring", "adler32", "publicsuffix", "openssl-sys", "libc", "cloudabi",
     "jna", "protobuf", "swift-protobuf", "openssl", "sqlcipher"}

Disks ==
    {[nm \in PackageNames |->
        CASE nm = "libc" -> d
          [] nm = "publicsuffix" ->
                [entries |-> {<<"LICENSE", "-APACHE">>, <<"LICENSE", "-MIT">>}, subdirs |-> {}]
          [] nm = "openssl-sys" -> OneFile(<<"LICENSE", "-MIT">>)
          [] nm \in {"ring", "adler32", "cloudabi"} -> OneFile(<<"LICENSE">>)
          [] OTHER -> [entries |-> {}, subdirs |-> {}]] : d \in LibcDirectories}

\* how the generator ended
SummaryRunning == [state |-> "running", error |-> "", names |-> {}]
SummaryReturned == [state |-> "returned", error |-> "", names |-> {}]
SummaryRaised(e, names) == [state |-> "raised", error |-> e, names |-> names]

\* __main__: nothing is written before the generator is exhausted
NoReport == [written |-> FALSE, records |-> <<>>]
Report(records) == [written |-> TRUE, records |-> records]

NoCargo == [inputs |-> <<>>, iosOnly |-> {}, failing |-> {}]

SummaryLocals ==
    /\ todo = <<>> /\ rootName = "" /\ rootTargets = <<>> /\ planIdx = 0 /\ packageDeps = {}
    /\ queries = <<>> /\ extraCalls = <<>> /\ summaryDeps = {} /\ remaining = <<>>
    /\ yielded = <<>> /\ summary = SummaryRunning /\ report = NoReport

SummaryStart ==
    /\ pc = "ready"
    /\ \E loginsTargets, fxaTargets \in BuildTargetOptions :
          metadata = WorkspaceDocument(loginsTargets, fxaTargets)
    /\ loaded = WorkspaceMetadata(metadata)
    /\ argName \in RequestedNames
    /\ argTargets \in RequestedTargets
    /\ cargo \in CargoAnswers
    /\ disk \in Disks
    /\ network \in BOOLEAN
    /\ SummaryLocals

SummaryIdle ==
    /\ argName = NoName /\ argTargets = TargetsNone /\ cargo = NoCargo
    /\ disk = <<>> /\ network = FALSE
    /\ SummaryLocals

\* for nm in self.workspaceMembersByName: the keys in insertion order
RECURSIVE MemberNames(_, _, _)
MemberNames(md, ws, i) ==
    IF i > Len(md.workspace_members) THEN <<>>
    ELSE <<ws.pkgInfoById[md.workspace_members[i]].name>> \o MemberNames(md, ws, i + 1)

\* every id the object knows, in one fixed order
KnownIds(md) ==
    [i \in 1..Len(md.packages) |-> md.packages[i].id]
    \o <<"ext-jna", "ext-openssl", "ext-protobuf", "ext-sqlcipher", "ext-swift-protobuf">>

Reverse(s) == [i \in 1..Len(s) |-> s[Len(s) + 1 - i]]

\* for id in deps: the order in which a set of strings is iterated changes
\* with the hash seed of the process; two opposite orders stand for them
IterationOrders(md, ds) ==
    LET up == SelectSeq(KnownIds(md), LAMBDA d : d \in ds) IN {up, Reverse(up)}

\* the generator is started: the names get_package_dependencies is called for
GetDependencySummary ==
    /\ pc = "ready"
    /\ pc' = "package"
    /\ todo' = IF argName.none THEN MemberNames(metadata, loaded.ws, 1) ELSE <<argName.name>>
    /\ UNCHANGED <<argName, argTargets, cargo, disk, network, rootName, rootTargets, planIdx,
                   packageDeps, queries, extraCalls, summaryDeps, remaining, yielded, summary>>
    /\ UNCHANGED report
    /\ UNCHANGED <<licVars, fetchVars, renderVars, loadVars, extVars>>

\* get_package_dependencies(nm, targets), up to the loop over the targets
GetCompatibleTargets ==
    /\ pc = "package"
    /\ todo # <<>>
    /\ LET compatible == get_compatible_targets_for_package(loaded.ws, Head(todo), argTargets) IN
       /\ rootName' = Head(todo)
       /\ rootTargets' = compatible.list
       /\ planIdx' = 1
       /\ packageDeps' = {}
       /\ IF compatible.ok
          THEN pc' = "plan" /\ UNCHANGED summary
          ELSE pc' = "done" /\ summary' = SummaryRaised(compatible.error, {})
    /\ UNCHANGED <<argName, argTargets, cargo, disk, network, todo, queries, extraCalls,
                   summaryDeps, remaining, yielded>>
    /\ UNCHANGED report
    /\ UNCHANGED <<licVars, fetchVars, renderVars, loadVars, extVars>>

\* one round of "for target in targets": the cargo command, check_returncode,
\* and the ids of the build plan's inputs
BuildPlanQuery ==
    /\ pc = "plan"
    /\ planIdx <= Len(rootTargets)
    /\ LET target == rootTargets[planIdx]
           inputs == BuildPlanInputs(metadata, cargo, rootName, target) IN
       /\ queries' = Append(queries, [package |-> rootName, target |-> target])
       /\ IF target \in cargo.failing
          THEN /\ pc' = "done" /\ summary' = SummaryRaised("CalledProcessError", {})
               /\ UNCHANGED <<planIdx, packageDeps>>
          ELSE IF \E path \in inputs : path \notin DOMAIN loaded.ws.pkgInfoByManifestPath
          THEN /\ pc' = "done" /\ summary' = SummaryRaised("KeyError", {})
               /\ UNCHANGED <<planIdx, packageDeps>>
          ELSE /\ packageDeps' = packageDeps \cup
                                    {loaded.ws.pkgInfoByManifestPath[path].id : path \in inputs}
               /\ planIdx' = planIdx + 1
               /\ UNCHANGED <<pc, summary>>
    /\ UNCHANGED <<argName, argTargets, cargo, disk, network, todo, rootName, rootTargets,
                   extraCalls, summaryDeps, remaining, yielded>>
    /\ UNCHANGED report
    /\ UNCHANGED <<licVars, fetchVars, renderVars, loadVars, extVars>>

\* deps |= self.get_extra_dependencies_not_managed_by_cargo(name, targets, deps);
\* return deps; and the caller's deps |= ... or deps = ...
GetExtraDependencies ==
    /\ pc = "plan"
    /\ planIdx > Len(rootTargets)
    /\ LET extras == get_extra_dependencies_not_managed_by_cargo(loaded.ws, rootTargets, packageDeps) IN
       /\ extraCalls' = Append(extraCalls, [name |-> rootName, targets |-> rootTargets,
                                            deps |-> packageDeps, extras |-> extras])
       /\ summaryDeps' = summaryDeps \cup packageDeps \cup extras
    /\ todo' = Tail(todo)
    /\ IF todo' # <<>> THEN pc' = "package" /\ UNCHANGED remaining
       ELSE IF argName.none THEN pc' = "fixups" /\ UNCHANGED remaining
       ELSE pc' = "yield" /\ remaining' \in IterationOrders(metadata, summaryDeps')
    /\ UNCHANGED <<argName, argTargets, cargo, disk, network, rootName, rootTargets, planIdx,
                   packageDeps, queries, yielded, summary>>
    /\ UNCHANGED report
    /\ UNCHANGED <<licVars, fetchVars, renderVars, loadVars, extVars>>

\* name is None: the check for fixups of packages that are no dependencies
CheckFixups ==
    /\ pc = "fixups"
    /\ LET unnecessary == unnecessaryDeps(loaded.ws, summaryDeps) IN
       IF unnecessary # {}
       THEN /\ pc' = "done"
            /\ summary' = SummaryRaised("Unnecessary dependencies in PACKAGE_METADATA_FIXUPS", unnecessary)
            /\ UNCHANGED remaining
       ELSE /\ pc' = "yield"
            /\ remaining' \in IterationOrders(metadata, summaryDeps)
            /\ UNCHANGED summary
    /\ UNCHANGED <<argName, argTargets, cargo, disk, network, todo, rootName, rootTargets, planIdx,
                   packageDeps, queries, extraCalls, summaryDeps, yielded>>
    /\ UNCHANGED report
    /\ UNCHANGED <<licVars, fetchVars, renderVars, loadVars, extVars>>

\* one round of "for id in deps": continue, or yield self.get_license_info(id)
YieldLicenseInfo ==
    /\ pc = "yield"
    /\ remaining # <<>>
    /\ LET dep == Head(remaining)
           info == get_license_info(loaded.ws, dep, disk, network) IN
       IF ~is_external_dependency(loaded.ws, dep)
       THEN remaining' = Tail(remaining) /\ UNCHANGED <<pc, yielded, summary>>
       ELSE IF ~info.ok
       THEN /\ pc' = "done" /\ summary' = SummaryRaised(info.error, {})
            /\ UNCHANGED <<remaining, yielded>>
       ELSE /\ yielded' = Append(yielded, info.info)
            /\ remaining' = Tail(remaining)
            /\ UNCHANGED <<pc, summary>>
    /\ UNCHANGED <<argName, argTargets, cargo, disk, network, todo, rootName, rootTargets, planIdx,
                   packageDeps, queries, extraCalls, summaryDeps>>
    /\ UNCHANGED report
    /\ UNCHANGED <<licVars, fetchVars, renderVars, loadVars, extVars>>

\* the loop over deps is over: the generator is exhausted
StopIteration ==
    /\ pc = "yield"
    /\ remaining = <<>>
    /\ pc' = "done"
    /\ summary' = SummaryReturned
    /\ UNCHANGED <<argName, argTargets, cargo, disk, network, todo, rootName, rootTargets, planIdx,
                   packageDeps, queries, extraCalls, summaryDeps, remaining, yielded>>
    /\ UNCHANGED report
    /\ UNCHANGED <<licVars, fetchVars, renderVars, loadVars, extVars>>

\* __main__: json.dump([info for info in deps], output), or
\* print_dependency_summary(deps, file=output), whose first loop takes every
\* record before anything is printed
WriteReport ==
    /\ pc = "done"
    /\ summary = SummaryReturned
    /\ pc' = "reported"
    /\ report' = Report(yielded)
    /\ UNCHANGED <<argName, argTargets, cargo, disk, network, todo, rootName, rootTargets, planIdx,
                   packageDeps, queries, extraCalls, summaryDeps, remaining, yielded, summary>>
    /\ UNCHANGED <<licVars, fetchVars, renderVars, loadVars, extVars>>

\* the package of that name has a build target whose kind includes "cdylib"
HasCdylib(nm) ==
    \E i \in 1..Len(metadata.packages) :
        /\ metadata.packages[i].name = nm
        /\ \E k \in 1..Len(metadata.packages[i].targets) : "cdylib" \in metadata.packages[i].targets[k]

\* the targets asked for: the list given, or the default list
RequestedList ==
    IF argTargets.kind = "none" \/ argTargets.list = <<>> THEN ALL_TARGETS ELSE argTargets.list

NotIos(target) == Len(target) = 0 \/ target[Len(target)] # "-ios"

\* the targets a root is to be queried for
EffectiveList(nm) ==
    IF HasCdylib(nm) THEN SelectSeq(RequestedList, NotIos) ELSE RequestedList

\* the targets of the build-plan commands run for a root, in the order they were run
RECURSIVE TargetsQueried(_, _)
TargetsQueried(nm, i) ==
    IF i > Len(queries) THEN <<>>
    ELSE (IF queries[i].package = nm THEN <<queries[i].target>> ELSE <<>>) \o TargetsQueried(nm, i + 1)

IsPrefix(a, b) == Len(a) <= Len(b) /\ a = SubSeq(b, 1, Len(a))

UnusedFixupError == "Unnecessary dependencies in PACKAGE_METADATA_FIXUPS"

\* the names of the packages in the closure of a member: itself and what
\* cargo lists for some effective target (the packages kept outside cargo
\* have names of their own, none of them in the fixup table)
ClosureNames(nm) ==
    IF EffectiveList(nm) = <<>> THEN {}
    ELSE {nm} \cup {d \in cargo.inputs[nm] :
                        d \in cargo.iosOnly =>
                            \E i \in 1..Len(EffectiveList(nm)) : ~NotIos(EffectiveList(nm)[i])}

\* the fixup names that name no package of the union of the members' closures
FixupsOutsideClosures ==
    PACKAGE_METADATA_FIXUP_NAMES \ UNION {ClosureNames(nm) : nm \in Range(MemberNames(metadata, loaded.ws, 1))}

\* C8: in a query without a package name, once the closures of all members
\* are computed, a fixup name outside their union makes the query fail with
\* the unused-fixup error, and no license record is produced before; the
\* error is raised in no other case, and never when a package name is given.
C8_UnusedFixupCheck ==
    /\ (argName.none /\ FixupsOutsideClosures # {}) =>
          /\ yielded = <<>>
          /\ pc # "yield"
          /\ (pc = "done" /\ Len(extraCalls) = Len(metadata.workspace_members)) =>
                summary = SummaryRaised(UnusedFixupError, FixupsOutsideClosures)
    /\ summary.error = UnusedFixupError => argName.none /\ FixupsOutsideClosures # {}
    /\ (~argName.none /\ pc = "done" /\ Len(extraCalls) = 1) =>
          summary.error \notin {UnusedFixupError, "KeyError", "CalledProcessError"}

\* publicsuffix is a dependency for iOS only and both members build a cdylib:
\* the full-workspace query fails on its fixup, with nothing produced
C8_Witness ==
    /\ pc = "done"
    /\ argName.none
    /\ Len(extraCalls) = 2
    /\ "publicsuffix" \in cargo.inputs["logins"]
    /\ summary = SummaryRaised(UnusedFixupError, {"publicsuffix"})
    /\ yielded = <<>>

\* the ids of the computed closure that is_external_dependency classifies as external
ExternalIds == {d \in summaryDeps : is_external_dependency(loaded.ws, d)}

\* license selection or license-text resolution fails for the package
LicenseFails(d) ==
    LET info == loaded.ws.pkgInfoById[d]
        chosen == pick_most_acceptable_license(d, info.license) IN
    \/ ~chosen.ok
    \/ ~_fetch_license_text(chosen.value, FetchInfo(info), disk[info.name], network).ok

\* the record a package is reported with
RecordOf(d) ==
    LET info == loaded.ws.pkgInfoById[d] IN
    [name |-> info.name, repository |-> info.repository,
     license |-> pick_most_acceptable_license(d, info.license).value,
     license_text |-> _fetch_license_text(pick_most_acceptable_license(d, info.license).value,
                                          FetchInfo(info), disk[info.name], network).value]

\* C11: when the generator runs to completion it has produced exactly one
\* record for every external id of the computed closure and none for an
\* internal one; when license selection or text resolution fails for an
\* external dependency the run fails, and no report is written without it.
C11_ReportComplete ==
    /\ \A i, j \in 1..Len(yielded) : yielded[i].name = yielded[j].name => i = j
    /\ \A i \in 1..Len(yielded) : \E d \in ExternalIds : yielded[i] = RecordOf(d)
    /\ summary = SummaryReturned =>
          /\ Len(yielded) = Cardinality(ExternalIds)
          /\ \A d \in ExternalIds : \E i \in 1..Len(yielded) : yielded[i] = RecordOf(d)
    /\ (pc \in {"yield", "done", "reported"} /\ \E d \in ExternalIds : LicenseFails(d)) =>
          /\ summary # SummaryReturned
          /\ report = NoReport
    /\ report.written => summary = SummaryReturned /\ report.records = yielded

\* the whole workspace is reported: the members are left out, the packages
\* kept outside cargo are in
C11_Witness ==
    /\ pc = "reported"
    /\ argName.none
    /\ "logins 0.1" \in summaryDeps /\ "fxa-client 0.1" \in summaryDeps
    /\ Cardinality(ExternalIds) >= 5
    /\ \E i \in 1..Len(report.records) : report.records[i].name = "sqlcipher"
    /\ \A i \in 1..Len(report.records) : report.records[i].name \notin {"logins", "fxa-client"}

\* the names of the packages of the package-manager closure of a call
CargoClosureNames(call) ==
    {metadata.packages[i].name : i \in {n \in 1..Len(metadata.packages) : metadata.packages[n].id \in call.deps}}

\* some effective target of the root ends in one of the suffixes
SomeEffectiveTargetEndsIn(nm, suffixes) ==
    \E i \in 1..Len(EffectiveList(nm)) :
        LET target == EffectiveList(nm)[i] IN Len(target) > 0 /\ target[Len(target)] \in suffixes

\* C16: the closure get_package_dependencies returns holds ext-jna and
\* ext-protobuf exactly when an effective target ends in "-android" or
\* "-androideabi", ext-swift-protobuf exactly when one ends in "-ios",
\* ext-openssl exactly when a package named openssl-sys or ring is in the
\* package-manager closure, ext-sqlcipher exactly when one named logins is;
\* no other externally-managed key is in it.
C16_ExtraDependencies ==
    \A i \in 1..Len(extraCalls) :
        LET call == extraCalls[i]
            returned == call.deps \cup call.extras
            android == SomeEffectiveTargetEndsIn(call.name, {"-android", "-androideabi"}) IN
        /\ "ext-jna" \in returned <=> android
        /\ "ext-protobuf" \in returned <=> android
        /\ "ext-swift-protobuf" \in returned <=> SomeEffectiveTargetEndsIn(call.name, {"-ios"})
        /\ "ext-openssl" \in returned <=> CargoClosureNames(call) \cap {"openssl-sys", "ring"} # {}
        /\ "ext-sqlcipher" \in returned <=> "logins" \in CargoClosureNames(call)
        /\ \A d \in returned :
              d \in {"ext-jna", "ext-protobuf", "ext-swift-protobuf", "ext-openssl", "ext-sqlcipher"}
              \/ \E n \in 1..Len(metadata.packages) : metadata.packages[n].id = d

\* logins with ring among its dependencies, built for Android: four keys are added
C16_Witness ==
    /\ Len(extraCalls) >= 1
    /\ extraCalls[1].name = "logins"
    /\ "ring 0.3" \in extraCalls[1].deps
    /\ extraCalls[1].targets = << <<"armv7-linux", "-androideabi">>, <<"armv7-linux", "-androideabi">> >>
    /\ extraCalls[1].extras = {"ext-jna", "ext-protobuf", "ext-openssl", "ext-sqlcipher"}

(***************************************************************************)
(* Calls of pick_most_acceptable_license                                   *)
(***************************************************************************)
MaxAlts == 3
MaxRawLen == 3

\* package ids the call is made for
LicensePackageIds == {"ext-openssl", "openssl 0.10.1"}

\* alternatives an expression is written from
AltNames ==
    {<<"MIT">>, <<"Apache-2.0">>, <<"Zlib">>, <<"OpenSSL">>,
     <<"BSD-3-Clause", " ", "AND", " ", "Zlib">>}

\* ways of writing "/" and the whitespace-delimited word OR
Separators == {<<"/">>, <<" ", "OR", " ">>, <<" ", "/", "\t">>}

\* symbols of the expressions that are not written from alternatives
RawSymbols == {"MIT", "OpenSSL", "OR", " ", "/"}

\* a[1] s[1] a[2] s[2] ... a[n]
RECURSIVE Join(_, _)
Join(a, s) ==
    IF Len(a) = 0 THEN <<>>
    ELSE IF Len(a) = 1 THEN a[1]
    ELSE a[1] \o s[1] \o Join(Tail(a), Tail(s))

LicStart ==
    /\ pc = "ready"
    /\ id \in LicensePackageIds
    /\ chosenLicense = NotCalled
    /\ \/ /\ alts \in SeqsUpTo(AltNames, MaxAlts) \ {<<>>}
          /\ seps \in [1..(Len(alts) - 1) -> Separators]
          /\ licenseId = Str(Join(alts, seps))
       \/ /\ alts = <<>>
          /\ seps = <<>>
          /\ licenseId \in {Str(s) : s \in SeqsUpTo(RawSymbols, MaxRawLen)} \cup {NoneStr}

LicIdle ==
    /\ id = "" /\ alts = <<>> /\ seps = <<>>
    /\ licenseId = NoneStr /\ chosenLicense = NotCalled

\* chosenLicense = self.pick_most_acceptable_license(id, pkgInfo["license"])
PickLicense ==
    /\ pc = "ready"
    /\ pc' = "done"
    /\ chosenLicense' = pick_most_acceptable_license(id, licenseId)
    /\ UNCHANGED <<id, alts, seps, licenseId>>
    /\ UNCHANGED <<fetchVars, renderVars, loadVars, extVars, sumVars>>

\* the preference-list position an alternative has (0: not in the list)
PreferenceIndex(name) ==
    IF \E i \in 1..Len(LICENES_IN_PREFERENCE_ORDER) : <<LICENES_IN_PREFERENCE_ORDER[i]>> = name
    THEN CHOOSE i \in 1..Len(LICENES_IN_PREFERENCE_ORDER) : <<LICENES_IN_PREFERENCE_ORDER[i]>> = name
    ELSE 0

HasPreferredAlt == \E a \in Range(alts) : PreferenceIndex(a) # 0

\* the alternative that comes earliest in the preference list
EarliestPreferredAlt ==
    CHOOSE a \in Range(alts) :
        /\ PreferenceIndex(a) # 0
        /\ \A b \in Range(alts) : PreferenceIndex(b) # 0 => PreferenceIndex(a) <= PreferenceIndex(b)

\* C1: for an expression written from alternatives separated by "/" or " OR ",
\* at least one of them in the preference list, the call returns the
\* alternative earliest in the list, and every permutation of the alternatives
\* gives the same result.
C1_EarliestPreferredAnyOrder ==
    (pc = "done" /\ alts # <<>> /\ HasPreferredAlt) =>
        /\ chosenLicense.ok
        /\ <<chosenLicense.value>> = EarliestPreferredAlt
        /\ \A p \in Permutations_(alts) :
              pick_most_acceptable_license(id, Str(Join(p, seps))) = chosenLicense

\* "MIT/Apache-2.0"-like: several alternatives, the first written is not the preferred one
C1_Witness ==
    /\ pc = "done" /\ Len(alts) >= 2
    /\ alts[1] = <<"MIT">> /\ <<"Apache-2.0">> \in Range(alts)
    /\ chosenLicense = Returned("Apache-2.0")

SpecialOpenSSL == <<"OpenSSL">> \in ParsedLicenses(licenseId.s) /\ id = "ext-openssl"

ParsedHasPreferred ==
    \E i \in 1..Len(LICENES_IN_PREFERENCE_ORDER) :
        <<LICENES_IN_PREFERENCE_ORDER[i]>> \in ParsedLicenses(licenseId.s)

\* C2: the call returns a preference-list member found among the parsed
\* alternatives, or "OpenSSL" only for package "ext-openssl" with "OpenSSL"
\* among the alternatives, or fails; without a preference-list alternative
\* (and outside the OpenSSL case) it always fails.
C2_OnlyAcceptedLicenses ==
    pc = "done" =>
        /\ chosenLicense.ok =>
              /\ ~licenseId.none
              /\ \/ /\ \E i \in 1..Len(LICENES_IN_PREFERENCE_ORDER) :
                          chosenLicense.value = LICENES_IN_PREFERENCE_ORDER[i]
                    /\ <<chosenLicense.value>> \in ParsedLicenses(licenseId.s)
                 \/ /\ chosenLicense.value = "OpenSSL"
                    /\ SpecialOpenSSL
        /\ (licenseId.none \/ (~ParsedHasPreferred /\ ~SpecialOpenSSL)) => ~chosenLicense.ok

\* "OpenSSL" declared by a package other than ext-openssl: the call fails
C2_Witness ==
    /\ pc = "done" /\ id # "ext-openssl"
    /\ ~licenseId.none /\ <<"OpenSSL">> \in ParsedLicenses(licenseId.s)
    /\ ~ParsedHasPreferred
    /\ chosenLicense = Raised("RuntimeError")

(***************************************************************************)
(* Specifications: one per part of the program, the other parts idle       *)
(***************************************************************************)
LicInit == LicStart /\ FetchIdle /\ RenderIdle /\ LoadIdle /\ ExternalIdle /\ SummaryIdle
LicNext == PickLicense
LicSpec == LicInit /\ [][LicNext]_vars

FetchInit == FetchStart /\ LicIdle /\ RenderIdle /\ LoadIdle /\ ExternalIdle /\ SummaryIdle
FetchNext == FetchLicenseText
FetchSpec == FetchInit /\ [][FetchNext]_vars

RenderInit == RenderStart /\ jsonMode = FALSE /\ LicIdle /\ FetchIdle /\ LoadIdle /\ ExternalIdle /\ SummaryIdle
RenderNext == PrintSummary \/ PrintSummaryAgain
RenderSpec == RenderInit /\ [][RenderNext]_vars

CheckInit == RenderStart /\ jsonMode \in BOOLEAN /\ LicIdle /\ FetchIdle /\ LoadIdle /\ ExternalIdle /\ SummaryIdle
CheckNext == GenerateReference \/ ChangeLicenseText \/ RunCheck
CheckSpec == CheckInit /\ [][CheckNext]_vars

LoadInit == LoadStart /\ LicIdle /\ FetchIdle /\ RenderIdle /\ ExternalIdle /\ SummaryIdle
LoadNext == LoadMetadata
LoadSpec == LoadInit /\ [][LoadNext]_vars

ExternalInit == ExternalStart /\ LicIdle /\ FetchIdle /\ RenderIdle /\ SummaryIdle
ExternalNext == IsExternalDependency
ExternalSpec == ExternalInit /\ [][ExternalNext]_vars

SummaryInit == SummaryStart /\ LicIdle /\ FetchIdle /\ RenderIdle /\ ExternalIdle
SummaryNext ==
    \/ GetDependencySummary \/ GetCompatibleTargets \/ BuildPlanQuery \/ GetExtraDependencies
    \/ CheckFixups \/ YieldLicenseInfo \/ StopIteration \/ WriteReport
SummarySpec == SummaryInit /\ [][SummaryNext]_vars

====
